---- MODULE Spec2Model ----
(***************************************************************************)
(* Model of the MFA session core of live_wire: src/backend/user.py,        *)
(* class AuthenticationManager.                                            *)
(*                                                                         *)
(* Everything runs on one asyncio event loop.  A coroutine runs without    *)
(* interruption between two points where it really suspends.  The table    *)
(* lock is only ever held over code without an await, so it is never       *)
(* contended and acquiring it never suspends.  The coroutines of the       *)
(* module suspend only in api.async_login (network), in asyncio.wait_for   *)
(* (the MFA wait) and when the aiohttp client session is closed.           *)
(*                                                                         *)
(* The login client (opower) is not part of the repository: it is the      *)
(* environment.  It may call mfa_callback, raise, or return with a token.  *)
(***************************************************************************)
EXTENDS Integers, Sequences, FiniteSets, TLC

\* ---------------------------------------------------------------- inputs
\* The ids uuid4 returns, in the order in which it returns them
IdOrder == <<"s1", "s2">>
SessionIds == {IdOrder[i] : i \in 1..Len(IdOrder)}
Credentials == {<<"alice", "pw1">>, <<"bob", "pw2">>}
Codes == {"000111", ""}
ErrorMsgs == {"login failed", ""}
ClockSteps == {7199, 7200}
MaxClockAdvances == 1

\* app.py, the keys of collection_status (lines 36-39)
CollectorTypes == {"electricity", "weather"}
MaxTriggers == 3

None == "None"
True == "True"
False == "False"
MFA_TIMEOUT == "MFA timeout"

\* Python truthiness of an Optional[str]
Truthy(x) == x # None /\ x # ""

\* api.access_token after a successful login with the given credentials
AccessTokenFor(u, p) ==
    "token:" \o u \o ":" \o p

VARIABLES
    mfa_sessions,   \* keys of the dict self.mfa_sessions
    sessions,       \* the session dict objects, by id (an object outlives its key)
    issued,         \* ids uuid4 has produced so far
    task,           \* per id: the authenticate_with_collector task
    now,            \* datetime.now(), seconds
    advances,       \* number of clock advances so far
    ret,            \* the value returned by the last call that returned (as a string)
    accepted,       \* history: number of submit_mfa calls that returned True, per id
    unlocked,       \* history: the kinds of mutation made so far without holding self.lock
    log,            \* the records the logger has emitted so far (order and repeats left out)
    collection_status,  \* app.py: collection_status[type]["status"]
    background,     \* app.py: per type, the background tasks added and not yet started
    running,        \* app.py: per type, the run_data_collector runs waiting for their script
    triggers,       \* per type, the number of POST /api/collect/<type> requests so far
    response        \* the last HTTP response of a trigger handler

\* The state of the session manager (user.py) and of the collectors (app.py).
auth_vars == <<mfa_sessions, sessions, issued, task, now, advances, ret, accepted, unlocked, log>>
collector_vars == <<collection_status, background, running, triggers, response>>

vars == <<auth_vars, collector_vars>>

Statuses == {"authenticating", "mfa_required", "mfa_received", "success", "failed", "timeout"}
Terminal == {"success", "failed", "timeout"}

\* pc: where the task is; timer: the timeout of wait_for; mfa_calls: calls of
\* mfa_callback so far; exc: the exception in flight; timed_out: history, the
\* wait ended with asyncio.TimeoutError.
NoTask == [pc |-> "idle", timer |-> "off", mfa_calls |-> 0, exc |-> None,
           timed_out |-> FALSE]

Init ==
    /\ mfa_sessions = {}
    /\ sessions = << >>
    /\ issued = {}
    /\ task = [s \in SessionIds |-> NoTask]
    /\ now = 0
    /\ advances = 0
    /\ ret = [op |-> "none", sid |-> None, val |-> None]
    /\ accepted = [s \in SessionIds |-> 0]
    /\ unlocked = {}
    /\ log = {}
    /\ collection_status = [t \in CollectorTypes |-> "idle"]
    /\ background = [t \in CollectorTypes |-> 0]
    /\ running = [t \in CollectorTypes |-> 0]
    /\ triggers = [t \in CollectorTypes |-> 0]
    /\ response = [type |-> None, code |-> 0]

\* A record of the logger: the line of the call, the session id in the message
\* and the other value the message is formatted with (None: no other value).
LogRecord(line, s, text) == [line |-> line, sid |-> s, text |-> text]

\* No coroutine is in the middle of a run between two suspension points.
\* The only such position the model keeps is the one between line 142
\* (token stored) and line 146 (status updated).
NoTaskRunning == \A s \in SessionIds : task[s].pc # "token_stored"

\* Mutant of the lookup: an id counts as present once it was created.
InTable_Issued(s) == s \in issued

\* self.mfa_sessions.get(session_id) is truthy
InTable(s) == s \in mfa_sessions

\* ------------------------------------------------------- create_session
\* Mutant of lines 30-40: a session starts out waiting for a code.
NewSession_AwaitingCode(u, p) ==
    [username |-> u, password |-> p, mfa_event |-> FALSE, mfa_code |-> None,
     created_at |-> now, status |-> "mfa_required", error |-> None,
     result |-> None, access_token |-> None]

\* Lines 30-40.
NewSession(u, p) ==
    [username |-> u, password |-> p, mfa_event |-> FALSE, mfa_code |-> None,
     created_at |-> now, status |-> "authenticating", error |-> None,
     result |-> None, access_token |-> None]

\* Mutant of line 23: the same id every time.
NewId_Reuse == IdOrder[1]

\* str(uuid.uuid4()), line 23: an id that was never returned before
NewId == IdOrder[Cardinality(issued) + 1]

create_session(u, p) ==
    /\ NoTaskRunning
    /\ Cardinality(issued) < Len(IdOrder)
    /\ issued' = issued \cup {NewId}
    /\ mfa_sessions' = mfa_sessions \cup {NewId}
    /\ sessions' = (NewId :> NewSession(u, p)) @@ sessions
    /\ ret' = [op |-> "create_session", sid |-> NewId, val |-> NewId]
    /\ log' = log \cup {LogRecord(45, NewId, u)}
    /\ UNCHANGED <<task, now, advances, accepted, unlocked, collector_vars>>

\* ----------------------------------------------------------- submit_mfa
\* Mutant of the guard of line 56: any status before the end is accepted.
SubmitMfaAccepts_AnyOpenStatus(s) ==
    InTable(s) /\ sessions[s].status \notin Terminal

\* Line 56: the session exists and its status is exactly "mfa_required".
SubmitMfaAccepts(s) ==
    InTable(s) /\ sessions[s].status = "mfa_required"

\* Mutant of lines 60-62: the event is not set.
SubmitMfaStore_NoSignal(sess, c) ==
    [sess EXCEPT !.mfa_code = c, !.status = "mfa_received"]

\* Mutant of lines 60-62: the status is not advanced.
SubmitMfaStore_NoFlip(sess, c) ==
    [sess EXCEPT !.mfa_code = c, !.mfa_event = TRUE]

\* Lines 60-62.
SubmitMfaStore(sess, c) ==
    [sess EXCEPT !.mfa_code = c, !.status = "mfa_received", !.mfa_event = TRUE]

submit_mfa(s, c) ==
    /\ NoTaskRunning
    /\ IF SubmitMfaAccepts(s)
       THEN /\ sessions' = [sessions EXCEPT ![s] = SubmitMfaStore(@, c)]
            /\ accepted' = [accepted EXCEPT ![s] = @ + 1]
            /\ ret' = [op |-> "submit_mfa", sid |-> s, val |-> True]
            /\ log' = log \cup {LogRecord(64, s, None)}
       ELSE /\ ret' = [op |-> "submit_mfa", sid |-> s, val |-> False]
            /\ UNCHANGED <<sessions, accepted, log>>
    /\ UNCHANGED <<mfa_sessions, issued, task, now, advances, unlocked, collector_vars>>

\* ---------------------------------------------------------- get_session
\* Returns the dict object itself (a reference, here its id), or None.
\* snap is history: the status the caller read through it when it got it.
get_session(s) ==
    /\ NoTaskRunning
    /\ ret' = [op |-> "get_session", sid |-> s,
               val |-> IF InTable(s) THEN s ELSE None,
               snap |-> IF InTable(s) THEN sessions[s].status ELSE None]
    /\ UNCHANGED <<mfa_sessions, sessions, issued, task, now, advances, accepted, unlocked, log, collector_vars>>

\* ------------------------------------------------ update_session_status
\* Mutant of lines 97-101: the update stamps the session with the time.
update_session_status_Restamp(s, status, error) ==
    IF InTable(s)
    THEN [sessions EXCEPT ![s] = [@ EXCEPT !.status = status,
                                          !.error = IF Truthy(error) THEN error ELSE @,
                                          !.created_at = now]]
    ELSE sessions

\* Mutant of lines 97-101: the update is applied to every session of the table.
update_session_status_AllSessions(s, status, error) ==
    IF InTable(s)
    THEN [x \in DOMAIN sessions |->
            IF x \in mfa_sessions
            THEN [sessions[x] EXCEPT !.status = status,
                                     !.error = IF Truthy(error) THEN error ELSE @]
            ELSE sessions[x]]
    ELSE sessions

\* The new value of `sessions` after update_session_status(s, status, error).
update_session_status(s, status, error) ==
    IF InTable(s)
    THEN [sessions EXCEPT ![s] = [@ EXCEPT !.status = status,
                                          !.error = IF Truthy(error) THEN error ELSE @]]
    ELSE sessions

\* ------------------------------------------- authenticate_with_collector
\* Lines 109-139: look the session up, set "authenticating", open the client
\* session and start api.async_login, which suspends on the network.
authenticate_with_collector(s) ==
    /\ NoTaskRunning
    /\ task[s].pc = "idle"
    /\ IF ~InTable(s)
       THEN /\ ret' = [op |-> "authenticate_with_collector", sid |-> s, val |-> "error"]
            /\ UNCHANGED <<sessions, task>>
       ELSE /\ sessions' = update_session_status(s, "authenticating", None)
            /\ task' = [task EXCEPT ![s].pc = "login"]
            /\ UNCHANGED ret
    /\ UNCHANGED <<mfa_sessions, issued, now, advances, accepted, unlocked, log, collector_vars>>

\* The login client calls mfa_callback (lines 126-129): status becomes
\* "mfa_required" and wait_for_mfa starts (lines 72-78).  With the session
\* gone wait_for_mfa returns None and the callback raises at once.
\* The client calls the callback at most once per login (its contract).
mfa_callback(s) ==
    /\ NoTaskRunning
    /\ task[s].pc = "login"
    /\ task[s].mfa_calls = 0
    /\ sessions' = update_session_status(s, "mfa_required", None)
    /\ IF InTable(s)
       THEN task' = [task EXCEPT ![s].pc = "waiting", ![s].timer = "armed",
                                 ![s].mfa_calls = @ + 1]
       ELSE task' = [task EXCEPT ![s].pc = "raised", ![s].exc = MFA_TIMEOUT,
                                 ![s].mfa_calls = @ + 1]
    /\ UNCHANGED <<mfa_sessions, issued, now, advances, ret, accepted, unlocked, log, collector_vars>>

\* The timeout of asyncio.wait_for (line 78) elapses while the task is
\* suspended in the wait.  The timer callback cancels the inner wait; the
\* task itself resumes in a later step of the event loop.  When the event
\* was set in the same loop iteration before the timer ran, the outcome
\* depends on the asyncio version: the cancellation is still delivered
\* (timeouts.timeout, 3.12) or the finished wait wins (3.11 and before).
timer_fires(s) ==
    /\ NoTaskRunning
    /\ task[s].pc = "waiting"
    /\ task[s].timer = "armed"
    /\ \E t \in {"expired", "late"} :
        /\ (t = "late") => sessions[s].mfa_event
        /\ task' = [task EXCEPT ![s].timer = t]
    /\ UNCHANGED <<mfa_sessions, sessions, issued, now, advances, ret, accepted, unlocked, log, collector_vars>>

\* wait_for_mfa resumes because the event is set (line 79), and mfa_callback
\* goes on (lines 130-134): an empty code raises, any other code sets the
\* status back to "authenticating" and is handed to the client.
wait_for_mfa_returns(s) ==
    /\ NoTaskRunning
    /\ task[s].pc = "waiting"
    /\ task[s].timer # "expired"
    /\ sessions[s].mfa_event
    /\ IF ~Truthy(sessions[s].mfa_code)
       THEN /\ task' = [task EXCEPT ![s].pc = "raised", ![s].exc = MFA_TIMEOUT,
                                    ![s].timer = "off"]
            /\ UNCHANGED sessions
       ELSE /\ task' = [task EXCEPT ![s].pc = "login", ![s].timer = "off"]
            /\ sessions' = update_session_status(s, "authenticating", None)
    /\ UNCHANGED <<mfa_sessions, issued, now, advances, ret, accepted, unlocked, log, collector_vars>>

\* Mutant of lines 80-84: the timeout path puts a new, unset event on the
\* session.
WaitTimeoutStore_NewEvent(sess) ==
    [sess EXCEPT !.status = "timeout", !.error = MFA_TIMEOUT, !.mfa_event = FALSE]

\* wait_for_mfa resumes with asyncio.TimeoutError (lines 80-84): status and
\* error are written on the dict the wait holds, None is returned and
\* mfa_callback raises Exception("MFA timeout") (line 131).  The exception
\* leaves async_login and the client session is closed, which suspends.
WaitTimeoutStore(sess) ==
    [sess EXCEPT !.status = "timeout", !.error = MFA_TIMEOUT]

wait_for_mfa_times_out(s) ==
    /\ NoTaskRunning
    /\ task[s].pc = "waiting"
    /\ task[s].timer = "expired"
    /\ sessions' = [sessions EXCEPT ![s] = WaitTimeoutStore(@)]
    /\ task' = [task EXCEPT ![s].pc = "raised", ![s].exc = MFA_TIMEOUT,
                            ![s].timer = "off", ![s].timed_out = TRUE]
    /\ UNCHANGED <<mfa_sessions, issued, now, advances, ret, accepted, unlocked, log, collector_vars>>

\* api.async_login raises (line 139) with message msg.
client_raises(s, msg) ==
    /\ NoTaskRunning
    /\ task[s].pc = "login"
    /\ task' = [task EXCEPT ![s].pc = "raised", ![s].exc = msg]
    /\ UNCHANGED <<mfa_sessions, sessions, issued, now, advances, ret, accepted, unlocked, log, collector_vars>>

\* Mutant of line 153: the handler leaves a status that is not final.
ExceptStatus_NotFinal == "authenticating"

\* except Exception (lines 151-155)
ExceptStatus == "failed"

\* Mutant of lines 151-155: the handler stores the session it holds back
\* into the table.
except_handler_Reinsert(s) ==
    /\ NoTaskRunning
    /\ task[s].pc = "raised"
    /\ mfa_sessions' = mfa_sessions \cup {s}
    /\ sessions' = [sessions EXCEPT ![s] = [@ EXCEPT !.status = ExceptStatus]]
    /\ task' = [task EXCEPT ![s].pc = "done", ![s].exc = None]
    /\ ret' = [op |-> "authenticate_with_collector", sid |-> s, val |-> "error"]
    /\ log' = log \cup {LogRecord(154, s, task[s].exc)}
    /\ UNCHANGED <<issued, now, advances, accepted, unlocked, collector_vars>>

\* Lines 151-155, the handler itself.
except_handler(s) ==
    /\ NoTaskRunning
    /\ task[s].pc = "raised"
    /\ sessions' = update_session_status(s, ExceptStatus, task[s].exc)
    /\ task' = [task EXCEPT ![s].pc = "done", ![s].exc = None]
    /\ ret' = [op |-> "authenticate_with_collector", sid |-> s, val |-> "error"]
    /\ log' = log \cup {LogRecord(154, s, task[s].exc)}
    /\ UNCHANGED <<mfa_sessions, issued, now, advances, accepted, unlocked, collector_vars>>

\* api.async_login returns; line 142 stores api.access_token on the dict
\* the task holds.
store_access_token(s) ==
    /\ NoTaskRunning
    /\ task[s].pc = "login"
    /\ sessions' = [sessions EXCEPT ![s].access_token =
                        AccessTokenFor(sessions[s].username, sessions[s].password)]
    /\ task' = [task EXCEPT ![s].pc = "token_stored"]
    /\ unlocked' = unlocked \cup {"access_token"}
    /\ log' = log \cup {LogRecord(143, s, None)}
    /\ UNCHANGED <<mfa_sessions, issued, now, advances, ret, accepted, collector_vars>>

\* Mutant of lines 146-149: the status is not updated.
mark_success_NoStatus(s) ==
    /\ task[s].pc = "token_stored"
    /\ task' = [task EXCEPT ![s].pc = "done"]
    /\ ret' = [op |-> "authenticate_with_collector", sid |-> s, val |-> "success"]
    /\ log' = log \cup {LogRecord(147, s, None)}
    /\ UNCHANGED <<mfa_sessions, sessions, issued, now, advances, accepted, unlocked, collector_vars>>

\* Lines 146-149: status "success", the client session is closed and the
\* task returns.
mark_success(s) ==
    /\ task[s].pc = "token_stored"
    /\ sessions' = update_session_status(s, "success", None)
    /\ task' = [task EXCEPT ![s].pc = "done"]
    /\ ret' = [op |-> "authenticate_with_collector", sid |-> s, val |-> "success"]
    /\ log' = log \cup {LogRecord(147, s, None)}
    /\ UNCHANGED <<mfa_sessions, issued, now, advances, accepted, unlocked, collector_vars>>

\* --------------------------------------------- get_session_access_token
TokenMaxAge == 7200

\* Mutant of line 173: the boundary counts as fresh.
TokenFresh_Inclusive(age) ==
    age <= TokenMaxAge

\* Line 173.
TokenFresh(age) ==
    age < TokenMaxAge

\* Mutant of lines 162-180: the age check comes before the status check.
get_session_access_token_EvictAnyOld(s) ==
    /\ NoTaskRunning
    /\ IF ~InTable(s)
       THEN /\ ret' = [op |-> "get_session_access_token", sid |-> s, val |-> None]
            /\ UNCHANGED <<mfa_sessions, unlocked, log>>
       ELSE IF ~TokenFresh(now - sessions[s].created_at)
       THEN /\ mfa_sessions' = mfa_sessions \ {s}
            /\ unlocked' = unlocked \cup {"delete"}
            /\ log' = log \cup {LogRecord(179, s, None)}
            /\ ret' = [op |-> "get_session_access_token", sid |-> s, val |-> None]
       ELSE /\ ret' = [op |-> "get_session_access_token", sid |-> s,
                       val |-> IF sessions[s].status = "success"
                               THEN sessions[s].access_token ELSE None]
            /\ UNCHANGED <<mfa_sessions, unlocked, log>>
    /\ UNCHANGED <<sessions, issued, task, now, advances, accepted, collector_vars>>

\* Lines 157-180.
get_session_access_token(s) ==
    /\ NoTaskRunning
    /\ IF ~InTable(s) \/ sessions[s].status # "success"
       THEN /\ ret' = [op |-> "get_session_access_token", sid |-> s, val |-> None]
            /\ UNCHANGED <<mfa_sessions, unlocked, log>>
       ELSE IF ~Truthy(sessions[s].access_token)
       THEN /\ ret' = [op |-> "get_session_access_token", sid |-> s, val |-> None]
            /\ UNCHANGED <<mfa_sessions, unlocked, log>>
       ELSE IF TokenFresh(now - sessions[s].created_at)
       THEN /\ ret' = [op |-> "get_session_access_token", sid |-> s,
                       val |-> sessions[s].access_token]
            /\ log' = log \cup {LogRecord(174, s, None)}
            /\ UNCHANGED <<mfa_sessions, unlocked>>
       ELSE /\ mfa_sessions' = mfa_sessions \ {s}
            /\ unlocked' = unlocked \cup {"delete"}
            /\ log' = log \cup {LogRecord(179, s, None)}
            /\ ret' = [op |-> "get_session_access_token", sid |-> s, val |-> None]
    /\ UNCHANGED <<sessions, issued, task, now, advances, accepted, collector_vars>>

\* ------------------------------------------------------------ the clock
advance_clock(d) ==
    /\ NoTaskRunning
    /\ advances < MaxClockAdvances
    /\ now' = now + d
    /\ advances' = advances + 1
    /\ UNCHANGED <<mfa_sessions, sessions, issued, task, ret, accepted, unlocked, log, collector_vars>>

\* ---------------------------------------------------------------- Next
\* The callers: every user starts at most one login; ids, codes and the
\* moments of the calls are free.
Next ==
    \/ \E c \in Credentials :
          /\ \A x \in issued : sessions[x].username # c[1]
          /\ create_session(c[1], c[2])
    \/ \E s \in SessionIds, c \in Codes : submit_mfa(s, c)
    \/ \E s \in SessionIds : get_session(s)
    \/ \E s \in SessionIds : authenticate_with_collector(s)
    \/ \E s \in issued : mfa_callback(s)
    \/ \E s \in issued : timer_fires(s)
    \/ \E s \in issued : wait_for_mfa_returns(s)
    \/ \E s \in issued : wait_for_mfa_times_out(s)
    \/ \E s \in issued, m \in ErrorMsgs : client_raises(s, m)
    \/ \E s \in issued : except_handler(s)
    \/ \E s \in issued : store_access_token(s)
    \/ \E s \in issued : mark_success(s)
    \/ \E s \in SessionIds : get_session_access_token(s)
    \/ \E d \in ClockSteps : advance_clock(d)

Spec == Init /\ [][Next]_vars

\* ================================================================ claims

\* C1: in every reachable state, the states between storing the token and
\* updating the status included, a session in the table has status "success"
\* if and only if its access_token is not null.
C1_SuccessIffToken ==
    \A s \in mfa_sessions :
        (sessions[s].status = "success") <=> (sessions[s].access_token # None)

\* C2: a session that entered mfa_required and whose wait timed out with no
\* code accepted has, once authenticate_with_collector has finished, status
\* "timeout", no access token and an error.
C2_TimeoutIsFinalStatus ==
    \A s \in mfa_sessions :
        (task[s].pc = "done" /\ task[s].timed_out /\ accepted[s] = 0)
            => /\ sessions[s].status = "timeout"
               /\ sessions[s].access_token = None
               /\ sessions[s].error # None

\* C3: once submit_mfa has returned True for a session, its status is never
\* afterwards set to "timeout" and its error is never set to the timeout
\* indicator.
C3_NoTimeoutAfterAcceptedCode ==
    [][\A s \in DOMAIN sessions :
          accepted[s] >= 1 =>
              /\ ~(sessions[s].status # "timeout" /\ sessions'[s].status = "timeout")
              /\ ~(sessions[s].error # MFA_TIMEOUT /\ sessions'[s].error = MFA_TIMEOUT)]_vars

\* C4: once the timeout of the MFA wait has elapsed, every later submit_mfa
\* for the session returns False and changes neither mfa_code nor status.
C4_NoCodeAfterTimeout ==
    [][\A s \in DOMAIN sessions, c \in Codes :
          ((task[s].timer \in {"expired", "late"} \/ task[s].timed_out) /\ submit_mfa(s, c))
              => /\ ret'.val = False
                 /\ sessions'[s].mfa_code = sessions[s].mfa_code
                 /\ sessions'[s].status = sessions[s].status]_vars

\* C5: submit_mfa for an id that is absent or whose status is not exactly
\* "mfa_required" returns False and changes no session and not the table.
C5_RejectedSubmitChangesNothing ==
    [][\A s \in SessionIds, c \in Codes :
          ((~InTable(s) \/ sessions[s].status # "mfa_required") /\ submit_mfa(s, c))
              => /\ ret' = [op |-> "submit_mfa", sid |-> s, val |-> False]
                 /\ sessions' = sessions
                 /\ mfa_sessions' = mfa_sessions]_vars

\* A submit_mfa was rejected for a session whose login had already failed.
C5_Witness ==
    \E s \in mfa_sessions :
        /\ ret = [op |-> "submit_mfa", sid |-> s, val |-> False]
        /\ task[s].pc = "done"
        /\ sessions[s].status = "failed"

\* C6: submit_mfa(s, c) for a session in the table with status "mfa_required"
\* returns True and in that one step stores c as mfa_code, sets the status to
\* "mfa_received" and sets the session's event; nothing else changes.
C6_AcceptedSubmitStoresCode ==
    [][\A s \in SessionIds, c \in Codes :
          (InTable(s) /\ sessions[s].status = "mfa_required" /\ submit_mfa(s, c))
              => /\ ret' = [op |-> "submit_mfa", sid |-> s, val |-> True]
                 /\ sessions' = [sessions EXCEPT ![s].mfa_code = c,
                                                 ![s].status = "mfa_received",
                                                 ![s].mfa_event = TRUE]
                 /\ mfa_sessions' = mfa_sessions]_vars

\* A code has just been accepted: stored, status advanced, event set.
C6_Witness ==
    \E s \in mfa_sessions :
        /\ ret = [op |-> "submit_mfa", sid |-> s, val |-> True]
        /\ sessions[s].status = "mfa_received"
        /\ sessions[s].mfa_code = "000111"
        /\ sessions[s].mfa_event

\* C7: at most one submit_mfa is accepted per login of a session: after an
\* accepted one every further submit_mfa for the session returns False and
\* mfa_code is never written again.
C7_AtMostOneAcceptedSubmit ==
    [][\A s \in DOMAIN sessions :
          accepted[s] >= 1 =>
              /\ accepted'[s] = accepted[s]
              /\ sessions'[s].mfa_code = sessions[s].mfa_code
              /\ \A c \in Codes : submit_mfa(s, c) => ret'.val = False]_vars

\* A second submit_mfa was rejected after the task had resumed with the code.
C7_Witness ==
    \E s \in mfa_sessions :
        /\ accepted[s] = 1
        /\ ret = [op |-> "submit_mfa", sid |-> s, val |-> False]
        /\ task[s].pc = "login"
        /\ task[s].mfa_calls = 1

\* C8: success, failed and timeout are terminal: a status that is one of
\* them is never changed to a different value.
C8_TerminalStatusesStay ==
    [][\A s \in DOMAIN sessions :
          sessions[s].status \in Terminal => sessions'[s].status = sessions[s].status]_vars

StateMachineEdges ==
    { <<"authenticating", "mfa_required">>, <<"mfa_required", "mfa_received">>,
      <<"mfa_received", "authenticating">>, <<"authenticating", "success">>,
      <<"authenticating", "failed">>, <<"mfa_required", "timeout">> }

\* C9: every change of a session's status is an edge of the state machine.
C9_OnlyStateMachineEdges ==
    [][\A s \in DOMAIN sessions :
          sessions'[s].status # sessions[s].status
              => <<sessions[s].status, sessions'[s].status>> \in StateMachineEdges]_vars

\* C10: for a session with status "success" and a stored token,
\* get_session_access_token returns the token and changes nothing while
\* now - created_at is below 2 hours, and returns None and removes exactly
\* that session once it is 2 hours or more; an evicted id is not found by
\* get_session and submit_mfa.
C10_TokenFreshnessAndEviction ==
    [][\A s \in SessionIds :
          /\ (/\ InTable(s)
              /\ sessions[s].status = "success"
              /\ sessions[s].access_token # None
              /\ get_session_access_token(s))
                => IF now - sessions[s].created_at < 7200
                   THEN /\ ret'.val = sessions[s].access_token
                        /\ mfa_sessions' = mfa_sessions
                        /\ sessions' = sessions
                   ELSE /\ ret'.val = None
                        /\ mfa_sessions' = mfa_sessions \ {s}
                        /\ sessions' = sessions
          /\ (s \in issued \ mfa_sessions)
                => /\ get_session(s) => ret'.val = None
                   /\ \A c \in Codes : submit_mfa(s, c) =>
                          (ret'.val = False /\ sessions' = sessions
                                            /\ mfa_sessions' = mfa_sessions)]_vars

\* A session was evicted by a token read at an age of exactly 2 hours.
C10_Witness ==
    \E s \in issued \ mfa_sessions :
        /\ ret = [op |-> "get_session_access_token", sid |-> s, val |-> None]
        /\ now - sessions[s].created_at = 7200
        /\ sessions[s].status = "success"

\* C11: an error raised by the login exchange is caught: when
\* authenticate_with_collector has returned its error result for a session in
\* the table, the status is "failed", error holds a message and access_token
\* is still null.
C11_LoginErrorBecomesFailed ==
    \A s \in mfa_sessions :
        (ret = [op |-> "authenticate_with_collector", sid |-> s, val |-> "error"]
            /\ task[s].pc = "done")
            => /\ sessions[s].status = "failed"
               /\ sessions[s].error # None
               /\ sessions[s].access_token = None

\* ------------------------------------------------------------- fairness
\* A step of the task authenticate_with_collector(s) once it has started:
\* the login client answers (calls mfa_callback, raises or returns), the MFA
\* wait ends (the event is set or the timeout elapses), and the event loop
\* resumes a task that is ready.
TaskStep(s) ==
    \/ mfa_callback(s)
    \/ timer_fires(s)
    \/ wait_for_mfa_returns(s)
    \/ wait_for_mfa_times_out(s)
    \/ \E m \in ErrorMsgs : client_raises(s, m)
    \/ except_handler(s)
    \/ store_access_token(s)
    \/ mark_success(s)

FairSpec == Spec /\ \A s \in SessionIds : WF_vars(TaskStep(s))

\* C12: with weak fairness on the task, every session whose
\* authenticate_with_collector has started eventually has a status among
\* success, failed and timeout and keeps one of them for ever.
C12_LoginReachesTerminalStatus ==
    \A s \in SessionIds :
        [](task[s].pc # "idle"
             => <>[](s \in DOMAIN sessions /\ sessions[s].status \in Terminal))

\* A started login has ended in a terminal status after an MFA round.
C12_Witness ==
    \E s \in mfa_sessions :
        /\ task[s].pc = "done"
        /\ task[s].mfa_calls = 1
        /\ sessions[s].status \in Terminal

\* C13: happy path.  When a code was accepted for a session, its wait did not
\* time out and the login client has returned with a token, the status
\* eventually is "success" and access_token is the token the client returned
\* for the session's credentials.
C13_HappyPathEndsInSuccess ==
    \A s \in SessionIds :
        []((task[s].pc = "token_stored" /\ accepted[s] = 1 /\ ~task[s].timed_out)
             => <>(/\ s \in DOMAIN sessions
                   /\ sessions[s].status = "success"
                   /\ sessions[s].access_token =
                          AccessTokenFor(sessions[s].username, sessions[s].password)))

\* A login with an accepted code "000111" has ended in success with a token.
C13_Witness ==
    \E s \in mfa_sessions :
        /\ accepted[s] = 1
        /\ sessions[s].mfa_code = "000111"
        /\ task[s].pc = "done"
        /\ sessions[s].status = "success"
        /\ sessions[s].access_token # None

\* A step taken on behalf of session a: a call with its id or a step of its task.
SessionStep(a) ==
    \/ \E c \in Codes : submit_mfa(a, c)
    \/ get_session(a)
    \/ get_session_access_token(a)
    \/ authenticate_with_collector(a)
    \/ TaskStep(a)

\* C14: sessions are independent.  A step taken on behalf of one session
\* leaves every field of every other session, its place in the table and its
\* task unchanged, and a stored token is always the one obtained with the
\* credentials of the session it is stored on.
C14_SessionsAreIndependent ==
    /\ [][\A a \in SessionIds :
             SessionStep(a) =>
                 \A b \in DOMAIN sessions \ {a} :
                     /\ sessions'[b] = sessions[b]
                     /\ (b \in mfa_sessions') <=> (b \in mfa_sessions)
                     /\ task'[b] = task[b]
                     /\ accepted'[b] = accepted[b]]_vars
    /\ [](\A s \in DOMAIN sessions :
             sessions[s].access_token # None =>
                 sessions[s].access_token =
                     AccessTokenFor(sessions[s].username, sessions[s].password))

\* Two logins side by side: one ended in success with its own token after an
\* accepted code, the other still waits for its code.
C14_Witness ==
    \E a \in mfa_sessions, b \in mfa_sessions :
        /\ a # b
        /\ sessions[a].username # sessions[b].username
        /\ accepted[a] = 1
        /\ sessions[a].status = "success"
        /\ sessions[a].access_token =
               AccessTokenFor(sessions[a].username, sessions[a].password)
        /\ sessions[b].status = "mfa_required"
        /\ sessions[b].mfa_code = None
        /\ ~sessions[b].mfa_event
        /\ sessions[b].access_token = None

\* C15: every mutation of the session table or of a session's fields is made
\* while self.lock is held: no mutation was ever made without it.
C15_AllMutationsUnderLock ==
    unlocked = {}

\* ------------------------------------------------ the sweep of old sessions
\* timedelta(minutes=5), line 186, in seconds
CleanupAge == 300

\* Line 189: created_at is before the cutoff.
Expired(s) == sessions[s].created_at < now - CleanupAge

\* _cleanup_expired_sessions (lines 182-193) removes every expired key from
\* the table, without the lock.  Its call in create_session is commented out
\* (lines 42-43); SpecSweep is the manager with a caller of the sweep.
_cleanup_expired_sessions ==
    /\ NoTaskRunning
    /\ mfa_sessions' = {s \in mfa_sessions : ~Expired(s)}
    /\ unlocked' = IF \E s \in mfa_sessions : Expired(s)
                   THEN unlocked \cup {"delete"} ELSE unlocked
    /\ log' = log \cup {LogRecord(193, s, None) : s \in {x \in mfa_sessions : Expired(x)}}
    /\ UNCHANGED <<sessions, issued, task, now, advances, ret, accepted, collector_vars>>

NextSweep == Next \/ _cleanup_expired_sessions

SpecSweep == Init /\ [][NextSweep]_vars

\* C16: authenticate_with_collector tolerates eviction.  Started on an id that
\* is not in the table it returns an error result and changes no session and
\* no table entry.  An id that left the table never comes back.  A login whose
\* session was removed while it was in flight is never stuck, and the step
\* that ends it is a normal return (a result of "success" or "error").
C16_LoginToleratesEviction ==
    /\ [][\A s \in SessionIds :
            (authenticate_with_collector(s) /\ s \notin mfa_sessions)
                => /\ ret' = [op |-> "authenticate_with_collector", sid |-> s,
                              val |-> "error"]
                   /\ UNCHANGED <<sessions, mfa_sessions, task>>]_vars
    /\ [][\A s \in issued : s \notin mfa_sessions => s \notin mfa_sessions']_vars
    /\ [][\A s \in issued :
            (s \notin mfa_sessions /\ TaskStep(s) /\ task'[s].pc = "done")
                => /\ ret'.op = "authenticate_with_collector"
                   /\ ret'.sid = s
                   /\ ret'.val \in {"success", "error"}]_vars
    /\ [](\A s \in issued :
            (s \notin mfa_sessions /\ task[s].pc \notin {"idle", "done"} /\ NoTaskRunning)
                => ENABLED TaskStep(s))

\* A login has ended normally although its session was removed before the
\* status update: the token is on the dict the task held, the status is not
\* "success".
C16_Witness ==
    \E s \in issued \ mfa_sessions :
        /\ task[s].pc = "done"
        /\ sessions[s].access_token # None
        /\ sessions[s].status # "success"

\* C17: create_session adds exactly one session, under an id that is not in
\* the table and was never issued, with status "authenticating", the event
\* not set, mfa_code, access_token and error None and the caller's
\* credentials, and returns that id; every session that existed before, in
\* the table or held by a task, and every task is left as it was.
C17_CreateAddsOneFreshSession ==
    [][\A c \in Credentials :
          create_session(c[1], c[2]) =>
              \E n \in SessionIds :
                  /\ n \notin mfa_sessions /\ n \notin issued /\ n \notin DOMAIN sessions
                  /\ mfa_sessions' = mfa_sessions \cup {n}
                  /\ DOMAIN sessions' = DOMAIN sessions \cup {n}
                  /\ sessions'[n].status = "authenticating"
                  /\ sessions'[n].mfa_event = FALSE
                  /\ sessions'[n].mfa_code = None
                  /\ sessions'[n].access_token = None
                  /\ sessions'[n].error = None
                  /\ sessions'[n].username = c[1]
                  /\ sessions'[n].password = c[2]
                  /\ sessions'[n].created_at = now
                  /\ ret'.val = n
                  /\ \A b \in DOMAIN sessions : sessions'[b] = sessions[b]
                  /\ UNCHANGED <<task, accepted>>]_vars

\* A second session has just been created while the login of the first one
\* waits for its MFA code.
C17_Witness ==
    /\ ret.op = "create_session"
    /\ ret.val = "s2"
    /\ mfa_sessions = {"s1", "s2"}
    /\ sessions["s1"].status = "mfa_required"
    /\ task["s1"].pc = "waiting"
    /\ sessions["s2"].status = "authenticating"

\* C18: get_session returns None exactly when the id is not in the table
\* (never created, or evicted); for an id in the table it returns the stored
\* session, through which the caller reads the current status and error.  It
\* changes no state, and it can always run when no coroutine is between two
\* suspension points (the lock is never held across a suspension).
C18_GetSessionNotFoundIffAbsent ==
    /\ [][\A s \in SessionIds :
            get_session(s) =>
                /\ (ret'.val = None) <=> (s \notin mfa_sessions)
                /\ s \in mfa_sessions =>
                      /\ ret'.val = s
                      /\ ret'.snap = sessions[s].status
                      /\ sessions'[ret'.val].status = sessions[s].status
                      /\ sessions'[ret'.val].error = sessions[s].error
                /\ UNCHANGED <<mfa_sessions, sessions, issued, task, now, accepted>>]_vars
    /\ [](NoTaskRunning => \A s \in SessionIds : ENABLED get_session(s))

\* get_session on an evicted id has returned None.
C18_Witness ==
    /\ ret.op = "get_session"
    /\ ret.sid \in issued \ mfa_sessions
    /\ ret.val = None

\* C19: what get_session hands to its caller has no other fields than status,
\* error and created_at.
C19_PollerSeesOnlyStatusFields ==
    (ret.op = "get_session" /\ ret.val # None)
        => DOMAIN sessions[ret.val] \subseteq {"status", "error", "created_at"}

\* C20: what get_session returned keeps the status it had when it was
\* returned, whatever happens to the session afterwards.
C20_ReturnedViewIsSnapshot ==
    (ret.op = "get_session" /\ ret.val # None)
        => sessions[ret.val].status = ret.snap

\* C21: a session keeps the event it was created with, and the event is set
\* at most once: an event that is set stays set (it is never cleared and
\* never exchanged for a new one), only an accepted submit_mfa sets it, and
\* no session ever has a second accepted submit_mfa.  The login client calls
\* mfa_callback at most once per login.
C21_OneSignalReleasedOnce ==
    /\ [][\A s \in DOMAIN sessions :
            /\ sessions[s].mfa_event => sessions'[s].mfa_event
            /\ (~sessions[s].mfa_event /\ sessions'[s].mfa_event)
                  => (accepted[s] = 0 /\ accepted'[s] = 1
                        /\ \E c \in Codes : submit_mfa(s, c))]_vars
    /\ [](\A s \in DOMAIN sessions :
            /\ accepted[s] <= 1
            /\ sessions[s].mfa_event <=> (accepted[s] = 1))

\* The event of a session was set by a submit_mfa that came after the timer
\* of the wait, the login is over, and a later submit_mfa was rejected.
C21_Witness ==
    \E s \in mfa_sessions :
        /\ sessions[s].mfa_event
        /\ task[s].timed_out
        /\ task[s].pc = "done"
        /\ ret = [op |-> "submit_mfa", sid |-> s, val |-> False]

\* C22: in every reachable state a session has an error exactly when its
\* status is "failed" or "timeout".
C22_ErrorIffFailedOrTimeout ==
    \A s \in DOMAIN sessions :
        (sessions[s].error # None) <=> (sessions[s].status \in {"failed", "timeout"})

\* C24: when the wait of mfa_callback ends because an accepted submit_mfa set
\* the event, the callback sets the status back to "authenticating" and hands
\* the submitted code to the login client, whatever code was accepted.
C24_CallbackReturnsSubmittedCode ==
    [][\A s \in issued :
          (wait_for_mfa_returns(s) /\ accepted[s] = 1)
              => /\ task'[s].pc = "login"
                 /\ sessions'[s].status = "authenticating"
                 /\ sessions'[s].mfa_code = sessions[s].mfa_code]_vars

\* C25: username, password and created_at of a session never change after
\* its creation, and a session keeps its id: no step changes these fields of
\* any session dict, in the table or not.
C25_IdentityFieldsAreFixed ==
    [][\A s \in DOMAIN sessions :
          /\ s \in DOMAIN sessions'
          /\ sessions'[s].username = sessions[s].username
          /\ sessions'[s].password = sessions[s].password
          /\ sessions'[s].created_at = sessions[s].created_at]_vars

\* A login with an MFA code has ended in success at a later time than the
\* creation of the session, and the token was read.
C25_Witness ==
    \E s \in mfa_sessions :
        /\ sessions[s].status = "success"
        /\ sessions[s].mfa_code = "000111"
        /\ now > sessions[s].created_at
        /\ ret = [op |-> "get_session_access_token", sid |-> s,
                  val |-> sessions[s].access_token]

\* C28: no step of the manager as it runs (without the sweep) removes a
\* session whose status is not "success".  get_session_access_token on such
\* a session returns None and leaves the table and the session as they are,
\* whatever the age of the session.
C28_UnfinishedSessionsAreNeverRemoved ==
    /\ [][\A s \in mfa_sessions :
            sessions[s].status # "success" => s \in mfa_sessions']_vars
    /\ [][\A s \in mfa_sessions :
            (get_session_access_token(s) /\ sessions[s].status # "success")
                => /\ ret'.val = None
                   /\ UNCHANGED <<mfa_sessions, sessions>>]_vars

\* The token of a failed session, older than the token age limit, was asked
\* for: None was returned and the session is still in the table.
C28_Witness ==
    /\ ret.op = "get_session_access_token"
    /\ ret.val = None
    /\ ret.sid \in mfa_sessions
    /\ sessions[ret.sid].status = "failed"
    /\ now - sessions[ret.sid].created_at >= TokenMaxAge

\* C29: as long as the login client has not called mfa_callback for a
\* session, the session is never in mfa_required, mfa_received or timeout,
\* its mfa_code is None, its event is not set and every submit_mfa for it
\* returns False; when such a login succeeds the status goes from
\* "authenticating" straight to "success".
C29_LoginWithoutMfa ==
    /\ [](\A s \in DOMAIN sessions :
            task[s].mfa_calls = 0
                => /\ sessions[s].status \in {"authenticating", "success", "failed"}
                   /\ sessions[s].mfa_code = None
                   /\ ~sessions[s].mfa_event
                   /\ accepted[s] = 0)
    /\ [][\A s \in DOMAIN sessions :
            (task[s].mfa_calls = 0 /\ \E c \in Codes : submit_mfa(s, c))
                => ret' = [op |-> "submit_mfa", sid |-> s, val |-> False]]_vars
    /\ [][\A s \in DOMAIN sessions :
            (task'[s].mfa_calls = 0 /\ sessions[s].status # "success"
                /\ sessions'[s].status = "success")
                => sessions[s].status = "authenticating"]_vars

\* A login without MFA has ended in success, and a submit_mfa for it that
\* came afterwards was rejected.
C29_Witness ==
    \E s \in mfa_sessions :
        /\ task[s].pc = "done"
        /\ task[s].mfa_calls = 0
        /\ sessions[s].status = "success"
        /\ sessions[s].access_token # None
        /\ ret = [op |-> "submit_mfa", sid |-> s, val |-> False]

\* C26: the sweep leaves in the table every session that is in "success" and
\* whose token is still fresh under the rule of get_session_access_token,
\* and it changes no field of any session.
C26_SweepKeepsFreshTokens ==
    [][_cleanup_expired_sessions =>
          /\ sessions' = sessions
          /\ \A s \in mfa_sessions :
                (sessions[s].status = "success" /\ TokenFresh(now - sessions[s].created_at))
                    => s \in mfa_sessions']_vars

\* ------------------------------------------- a second call of mfa_callback
\* The login client calls mfa_callback again in the same login (lines
\* 126-129): the status is set to "mfa_required" and wait_for_mfa waits on
\* the event of the session, the same one as before (lines 72-78).
mfa_callback_again(s) ==
    /\ NoTaskRunning
    /\ task[s].pc = "login"
    /\ task[s].mfa_calls = 1
    /\ sessions' = update_session_status(s, "mfa_required", None)
    /\ IF InTable(s)
       THEN task' = [task EXCEPT ![s].pc = "waiting", ![s].timer = "armed",
                                 ![s].mfa_calls = @ + 1]
       ELSE task' = [task EXCEPT ![s].pc = "raised", ![s].exc = MFA_TIMEOUT,
                                 ![s].mfa_calls = @ + 1]
    /\ UNCHANGED <<mfa_sessions, issued, now, advances, ret, accepted, unlocked, log, collector_vars>>

NextRecall == Next \/ \E s \in issued : mfa_callback_again(s)

SpecRecall == Init /\ [][NextRecall]_vars

\* C27: a second call of mfa_callback in one login hands a code to the login
\* client only after a second submit_mfa was accepted.
C27_SecondCallbackWaitsForNewCode ==
    [][\A s \in issued :
          (wait_for_mfa_returns(s) /\ task[s].mfa_calls = 2 /\ task'[s].pc = "login")
              => accepted[s] = 2]_vars

\* C23: no record of the log holds the username, the password or the access
\* token of a session.
C23_NoSecretsInLog ==
    \A r \in log : \A s \in DOMAIN sessions :
        /\ r.text # sessions[s].username
        /\ r.text # sessions[s].password
        /\ sessions[s].access_token # None => r.text # sessions[s].access_token

\* ------------------------------------------------ the collectors (app.py)
\* A trigger handler has no await: it runs as one step.  The background task
\* it adds starts after the response was sent, so other handlers can run
\* between the two.  run_data_collector suspends once, while its script runs.
ReturnCodes == {0, 1}

\* Lines 402 and 419: the check of the trigger handlers.
TriggerRefused(t) == collection_status[t] = "running"

\* POST /api/collect/weather (lines 399-411)
trigger_weather_collection ==
    /\ triggers["weather"] < MaxTriggers
    /\ triggers' = [triggers EXCEPT !["weather"] = @ + 1]
    /\ IF TriggerRefused("weather")
       THEN /\ response' = [type |-> "weather", code |-> 409]
            /\ UNCHANGED background
       ELSE /\ background' = [background EXCEPT !["weather"] = @ + 1]
            /\ response' = [type |-> "weather", code |-> 200]
    /\ UNCHANGED <<collection_status, running, auth_vars>>

\* POST /api/collect/electricity (lines 413-439); password_set: the
\* environment variable CONED_PASSWORD has a value (lines 427-431).
trigger_electricity_collection(password_set) ==
    /\ triggers["electricity"] < MaxTriggers
    /\ triggers' = [triggers EXCEPT !["electricity"] = @ + 1]
    /\ IF TriggerRefused("electricity")
       THEN /\ response' = [type |-> "electricity", code |-> 409]
            /\ UNCHANGED background
       ELSE IF ~password_set
       THEN /\ response' = [type |-> "electricity", code |-> 400]
            /\ UNCHANGED background
       ELSE /\ background' = [background EXCEPT !["electricity"] = @ + 1]
            /\ response' = [type |-> "electricity", code |-> 200]
    /\ UNCHANGED <<collection_status, running, auth_vars>>

\* A background task starts (lines 139-170): the status becomes "running"
\* and the script is started, or the script is missing and the except clause
\* (lines 190-193) sets "failed" before any suspension.
run_data_collector(t, script_exists) ==
    /\ background[t] > 0
    /\ background' = [background EXCEPT ![t] = @ - 1]
    /\ IF script_exists
       THEN /\ collection_status' = [collection_status EXCEPT ![t] = "running"]
            /\ running' = [running EXCEPT ![t] = @ + 1]
       ELSE /\ collection_status' = [collection_status EXCEPT ![t] = "failed"]
            /\ UNCHANGED running
    /\ UNCHANGED <<triggers, response, auth_vars>>

\* The script of a run has ended (lines 172-188).
process_exits(t, returncode) ==
    /\ running[t] > 0
    /\ running' = [running EXCEPT ![t] = @ - 1]
    /\ collection_status' = [collection_status EXCEPT
                                ![t] = IF returncode = 0 THEN "completed" ELSE "failed"]
    /\ UNCHANGED <<background, triggers, response, auth_vars>>

NextCollect ==
    \/ trigger_weather_collection
    \/ \E password_set \in BOOLEAN : trigger_electricity_collection(password_set)
    \/ \E t \in CollectorTypes, script_exists \in BOOLEAN : run_data_collector(t, script_exists)
    \/ \E t \in CollectorTypes, returncode \in ReturnCodes : process_exits(t, returncode)

SpecCollect == Init /\ [][NextCollect]_vars

\* C30: for each collector type at most one run of run_data_collector is in
\* progress at any time.
C30_AtMostOneRunPerType ==
    \A t \in CollectorTypes : running[t] <= 1

====
